---- MODULE Spec2Model ----
(***************************************************************************)
(* Model of the ajou-notice Discord bot worker (src/src/index.ts).         *)
(*                                                                         *)
(* The worker has two entry points: fetch (the HTTP handler: create, read, *)
(* delete and refresh of a webhook subscription) and scheduled (the cron   *)
(* sweep over all subscriptions).  The host runs every request and every   *)
(* cron tick as an independent invocation; invocations share only the D1   *)
(* table discord_bot.  Every await of the handlers is a step of the model; *)
(* the code between two awaits runs atomically.                            *)
(***************************************************************************)
EXTENDS Integers, Sequences, FiniteSets, TLC

\* ------------------------------------------------------------------ bounds
\* notices the upstream board publishes in one run (ids 1..MaxNotice)
MaxNotice == 2
\* calls (notice fetch, store, dispatch) that fail or answer malformed
MaxFaults == 1
\* invocations (requests and cron ticks) in progress at the same time
MaxConc == 2
\* dispatches of one notice to one webhook that are counted
MaxTimes == 2

Procs == 1..MaxConc
Webhooks == {"w1", "w2"}
\* searchParams.get('webhook') is null when the parameter is missing
NoWebhook == "null"
\* request bodies: no filter field, or a category
Payloads == {"", "a"}
\* a null element of a malformed notice array
Null == -1

VARIABLES
  db,         \* table discord_bot: webhook -> [latestId, queryParams] (and,
              \* as history, initial: the latestId the row was inserted with)
  feed,       \* upstream board: the ids of the notices it lists
  nextId,     \* id of the next notice the board publishes
  inv,        \* the invocations: the handler's locals and position
  delivered,  \* per webhook and notice id, how often it was POSTed to it
  seen,       \* the webhook and the fetched body of the last completed sync,
              \* while its subscription stands (history)
  faults,     \* the calls that may still fail or answer malformed
  conc,       \* how many invocations the host runs at the same time
  failed      \* the webhook and the notice of the last dispatch that failed,
              \* while its subscription stands (history)

vars == <<db, feed, nextId, inv, delivered, seen, faults, conc, failed>>

\* ------------------------------------------------------- pure computations
RECURSIVE Reverse(_)
Reverse(s) == IF s = <<>> THEN <<>> ELSE Append(Reverse(Tail(s)), Head(s))

RECURSIVE Filter(_, _)
Filter(s, w) ==
  IF s = <<>> THEN <<>>
  ELSE IF Head(s) > w THEN <<Head(s)>> \o Filter(Tail(s), w)
       ELSE Filter(Tail(s), w)

\* queryParams.toString() of the URLSearchParams built from the body
QueryString(payload) == IF payload = "" THEN "" ELSE "category=" \o payload

\* The category of a notice: the board files odd ids under "a", even ids
\* under "b".
Category(n) == IF n % 2 = 1 THEN "a" ELSE "b"

\* whether the board lists notice n under a query string
Matches(qs, n) == n \in feed /\ (qs = "" \/ qs = "category=" \o Category(n))

\* GET /api/notices?<qs> of the notice worker: the matching ids, newest first
RECURSIVE NoticesFrom(_, _)
NoticesFrom(qs, n) ==
  IF n = 0 THEN <<>>
  ELSE IF Matches(qs, n) THEN <<n>> \o NoticesFrom(qs, n - 1)
       ELSE NoticesFrom(qs, n - 1)

Notices(qs) == NoticesFrom(qs, MaxNotice)

\* The URL a sync passes to env.NOTICE_WORKER.fetch: the refresh passes a
\* path without scheme and host (line 165), the sweep an absolute URL
\* (line 204).
RefreshUrl(qs) == [origin |-> "", query |-> qs]
ScheduledUrl(qs) == [origin |-> "https://ajou-notice.asitis.workers.dev", query |-> qs]

\* Whether the binding's fetch takes the URL: an absolute URL is taken; a
\* URL without scheme and host is resolved against a base by some runtimes
\* and rejected with a TypeError by others.
Resolves(url) == IF url.origin = "" THEN {TRUE, FALSE} ELSE {TRUE}

\* A parsed response body: shape "array" with its elements, or shape "object"
\* (a JSON value that is no array, such as an error envelope).
ArrayBody(s) == [shape |-> "array", items |-> s]
ObjectBody == [shape |-> "object", items |-> <<>>]
NoBody == [shape |-> "none", items |-> <<>>]

\* (mutant) the id of the last element, the oldest notice
LatestIdOfLast(body) ==
  IF body.shape = "array" /\ body.items # <<>> /\ body.items[Len(body.items)] # Null
  THEN body.items[Len(body.items)] ELSE 0

\* notices[0]?.id ?? 0
LatestId(body) ==
  IF body.shape = "array" /\ body.items # <<>> /\ Head(body.items) # Null
  THEN Head(body.items) ELSE 0

\* notices.filter(...) throws on a value without filter and on a null element
FilterThrows(body) ==
  \/ body.shape # "array"
  \/ \E i \in 1..Len(body.items) : body.items[i] = Null

\* (mutant) the delta without reverse(): newest first
NewNoticesNewestFirst(body, latestId) == Filter(body.items, latestId)

\* (mutant) the delta with >= for >: the notice at the watermark is in it
NewNoticesFromWatermark(body, latestId) ==
  Reverse(Filter(body.items, latestId - 1))

\* notices.filter((notice) => notice.id > latestId).reverse()
NewNotices(body, latestId) == Reverse(Filter(body.items, latestId))

\* (mutant) >= for >
ShouldUpdateOnEqual(latestId, stored) == latestId >= stored

\* if (latestId > info.latestId)
ShouldUpdate(latestId, stored) == latestId > stored

\* ------------------------------------------------------------- the store
Row(latestId, qs, initial) ==
  [latestId |-> latestId, queryParams |-> qs, initial |-> initial]

\* (mutant) the select without its where clause: the first row of the table
SelectFirst(w) ==
  IF DOMAIN db = {} THEN <<>> ELSE <<db[CHOOSE x \in DOMAIN db : TRUE]>>

\* db.select().from(discordBot).where(eq(webhook)).get(): <<row>> or <<>>
SelectOne(w) == IF w \in DOMAIN db THEN <<db[w]>> ELSE <<>>

\* db.insert(discordBot).values(newRecord)
Inserted(w, row) == [x \in DOMAIN db \cup {w} |-> IF x = w THEN row ELSE db[x]]

\* (mutant) the update as an upsert: a row is written also when none matches
Upserted(w, latestId) ==
  [x \in DOMAIN db \cup {w} |->
     IF x = w
     THEN Row(latestId, IF w \in DOMAIN db THEN db[w].queryParams ELSE "",
              IF w \in DOMAIN db THEN db[w].initial ELSE latestId)
     ELSE db[x]]

\* db.update(discordBot).set({ latestId }).where(eq(webhook))
Updated(w, latestId) ==
  [x \in DOMAIN db |-> IF x = w THEN Row(latestId, db[x].queryParams, db[x].initial)
                    ELSE db[x]]

\* db.delete(discordBot).where(eq(webhook))
Deleted(w) == [x \in DOMAIN db \ {w} |-> db[x]]

\* db.select().from(discordBot).all(): the rows in some order
Bot(w) == [webhook |-> w, row |-> db[w]]

AllBots ==
  { s \in UNION { [1..n -> DOMAIN db] : n \in {Cardinality(DOMAIN db)} } :
      \A i, j \in DOMAIN s : i # j => s[i] # s[j] }

\* ------------------------------------------------------------ invocations
Idle ==
  [kind |-> "idle", pc |-> "idle", webhook |-> NoWebhook, queryParams |-> "",
   info |-> <<>>, bots |-> <<>>, loaded |-> {}, synced |-> {},
   body |-> NoBody, latestId |-> 0, queue |-> <<>>, sent |-> <<>>,
   wrote |-> FALSE, fault |-> "none", status |-> 0, threw |-> FALSE,
   registered |-> FALSE]

\* a request arrives only after the ones before it (slots are used in order)
\* An invocation that has ended is over (see Return) before anything else
\* happens; only the answer of a creation request may stay visible while
\* others go on.
Ended == \E q \in Procs : inv[q].pc = "done" /\ inv[q].kind # "create"

\* an arriving request or cron tick takes the first invocation not in use
Free(p) ==
  /\ ~Ended
  /\ p <= conc
  /\ inv[p].kind = "idle"
  /\ \A q \in Procs : q < p => inv[q].kind # "idle"

\* invocation p of a handler stands before the await named pc
At(p, kind, pc) == ~Ended /\ inv[p].kind = kind /\ inv[p].pc = pc

CanFail == faults > 0

\* return new Response(..., { status })
Respond(r, status) == [r EXCEPT !.pc = "done", !.status = status]

\* an exception no handler catches: the invocation ends with an error
Throw(r, what) ==
  [r EXCEPT !.pc = "done", !.status = 500, !.threw = TRUE, !.fault = what]

\* the sync of r has completed: its body is the last one seen
Seen(r) == [webhook |-> r.webhook, body |-> r.body]

\* no sync has completed, or its subscription was deleted or replaced
NotSeen == [webhook |-> NoWebhook, body |-> NoBody]

\* the subscription of w is deleted or inserted
Unseen(w) == IF seen.webhook = w THEN NotSeen ELSE seen

\* the dispatch of the head of r's delta has failed
Failed(r) == [webhook |-> r.webhook, notice |-> Head(r.queue)]

\* no dispatch has failed, or its subscription was deleted or replaced
NotFailed == [webhook |-> NoWebhook, notice |-> 0]

\* the subscription of w is deleted or inserted
Unfailed(w) == IF failed.webhook = w THEN NotFailed ELSE failed

\* one more dispatch of notice n to webhook w
Delivered(w, n) ==
  [delivered EXCEPT ![w][n] = IF @ < MaxTimes THEN @ + 1 ELSE @]

Init ==
  /\ db = [x \in {} |-> Row(0, "", 0)]
  /\ feed = {}
  /\ nextId = 1
  /\ inv = [p \in Procs |-> Idle]
  /\ delivered = [w \in Webhooks |-> [n \in 1..MaxNotice |-> 0]]
  /\ seen = NotSeen
  /\ faults = MaxFaults
  /\ conc = 1
  /\ failed = NotFailed

\* ------------------------------------------------------- the notice board
\* the board publishes a notice: ids increase
Publish ==
  /\ ~Ended
  /\ nextId <= MaxNotice
  /\ feed' = feed \cup {nextId}
  /\ nextId' = nextId + 1
  /\ UNCHANGED <<db, inv, delivered, seen, faults, conc, failed>>

\* the board withdraws its newest notice; the id is not used again
Retract ==
  /\ ~Ended
  /\ feed # {}
  /\ feed' = feed \ {CHOOSE n \in feed : \A m \in feed : m <= n}
  /\ UNCHANGED <<db, nextId, inv, delivered, seen, faults, conc, failed>>

\* What env.NOTICE_WORKER.fetch + response.json() can yield for a query:
\* the notice array, or (a fault) a JSON value that is no array, or the
\* array followed by a null element.
GoodBody(qs) == ArrayBody(Notices(qs))
BadBodies(qs) == {ObjectBody, ArrayBody(Append(Notices(qs), Null))}

\* ------------------------------------------------------------- the sync
\* (lines 168-175 of the refresh, 207-214 of the sweep; r is the invocation
\* with info holding the row it read)
Stored(r) == r.info[1].latestId

\* line 175 / 214: the delta is computed, or filter throws
Filtered(r) ==
  IF FilterThrows(r.body)
  THEN [r EXCEPT !.pc = "done", !.status = 500, !.threw = TRUE]
  ELSE [r EXCEPT !.pc = "send", !.queue = NewNotices(r.body, Stored(r))]

\* (mutant) the watermark is not written before the dispatches
FetchedLate(r, b) == Filtered([r EXCEPT !.body = b, !.latestId = LatestId(b)])

\* lines 168-171 / 207-210: the body is parsed, latestId taken and compared
Fetched(r, b) ==
  IF ShouldUpdate(LatestId(b), Stored(r))
  THEN [r EXCEPT !.pc = "update", !.body = b, !.latestId = LatestId(b)]
  ELSE Filtered([r EXCEPT !.body = b, !.latestId = LatestId(b)])

\* line 172 / 211 has completed
Wrote(r) == Filtered([r EXCEPT !.wrote = TRUE])

\* lines 182-185 / 221-224 have completed for the head of the delta: the
\* loop goes on (the response of the webhook is not looked at)
Sent(r) ==
  [r EXCEPT !.pc = "send", !.queue = Tail(r.queue),
            !.sent = Append(r.sent, Head(r.queue))]

\* line 165 / 204: the binding's fetch throws on the URL
Rejected(r) == [r EXCEPT !.pc = "done", !.status = 500, !.threw = TRUE]

\* ----------------------------------------------------- GET /api/webhook
\* lines 44-63
GetWebhook(p, w) ==
  /\ Free(p)
  /\ \/ /\ inv' = [inv EXCEPT ![p] =
               IF w = NoWebhook
               THEN [Idle EXCEPT !.kind = "get", !.pc = "done", !.status = 400]
               ELSE IF SelectOne(w) = <<>>
               THEN [Idle EXCEPT !.kind = "get", !.pc = "done", !.webhook = w,
                                 !.status = 404]
               ELSE [Idle EXCEPT !.kind = "get", !.pc = "done", !.webhook = w,
                                 !.registered = TRUE, !.info = SelectOne(w),
                                 !.status = 200]]
        /\ UNCHANGED faults
     \/ /\ CanFail /\ w # NoWebhook
        /\ inv' = [inv EXCEPT ![p] =
               Throw([Idle EXCEPT !.kind = "get", !.webhook = w], "store")]
        /\ faults' = faults - 1
  /\ UNCHANGED <<db, feed, nextId, delivered, seen, conc, failed>>

\* ---------------------------------------------------- POST /api/webhook
\* lines 64-88: the request arrives (400 without the parameter), the notices
\* are fetched and newRecord is built
Posted(w, payload) ==
  [Idle EXCEPT !.kind = "create", !.pc = "select", !.webhook = w,
               !.queryParams = QueryString(payload),
               !.registered = (w \in DOMAIN db)]

PostWebhook(p, w, payload) ==
  /\ Free(p)
  /\ \/ /\ inv' = [inv EXCEPT ![p] =
               IF w = NoWebhook
               THEN [Idle EXCEPT !.kind = "create", !.pc = "done", !.status = 400]
               ELSE [Posted(w, payload) EXCEPT
                       !.body = GoodBody(QueryString(payload)),
                       !.latestId = LatestId(GoodBody(QueryString(payload)))]]
        /\ UNCHANGED faults
     \/ /\ CanFail /\ w # NoWebhook
        /\ \E b \in BadBodies(QueryString(payload)) :
             inv' = [inv EXCEPT ![p] =
               [Posted(w, payload) EXCEPT !.body = b, !.latestId = LatestId(b),
                                          !.fault = "malformed"]]
        /\ faults' = faults - 1
     \/ /\ CanFail /\ w # NoWebhook
        /\ inv' = [inv EXCEPT ![p] = Throw(Posted(w, payload), "fetch")]
        /\ faults' = faults - 1
  /\ UNCHANGED <<db, feed, nextId, delivered, seen, conc, failed>>

\* lines 90-96: the duplicate check
PostSelect(p) ==
  /\ At(p, "create", "select")
  /\ \/ /\ inv' = [inv EXCEPT ![p] =
               IF SelectOne(inv[p].webhook) # <<>>
               THEN [Respond(inv[p], 409) EXCEPT !.info = SelectOne(inv[p].webhook)]
               ELSE [inv[p] EXCEPT !.pc = "insert"]]
        /\ UNCHANGED faults
     \/ /\ CanFail
        /\ inv' = [inv EXCEPT ![p] = [Respond(inv[p], 500) EXCEPT !.fault = "store"]]
        /\ faults' = faults - 1
  /\ UNCHANGED <<db, feed, nextId, delivered, seen, conc, failed>>

\* Status of the insert: the primary key (schema.ts line 4) rejects a second
\* row for a webhook; the error is caught by the catch of lines 103-107.
InsertStatus(w) == IF w \in DOMAIN db THEN 500 ELSE 201

\* lines 98-107: the insert
PostInsert(p) ==
  /\ At(p, "create", "insert")
  /\ \/ /\ inv' = [inv EXCEPT ![p] =
               [Respond(inv[p], InsertStatus(inv[p].webhook)) EXCEPT
                  !.wrote = (InsertStatus(inv[p].webhook) = 201)]]
        /\ db' = IF InsertStatus(inv[p].webhook) = 201
                 THEN Inserted(inv[p].webhook,
                               Row(inv[p].latestId, inv[p].queryParams,
                                   inv[p].latestId))
                 ELSE db
        /\ seen' = IF InsertStatus(inv[p].webhook) = 201
                   THEN Unseen(inv[p].webhook) ELSE seen
        /\ failed' = IF InsertStatus(inv[p].webhook) = 201
                     THEN Unfailed(inv[p].webhook) ELSE failed
        /\ UNCHANGED faults
     \/ /\ CanFail
        /\ inv' = [inv EXCEPT ![p] = [Respond(inv[p], 500) EXCEPT !.fault = "store"]]
        /\ faults' = faults - 1
        /\ UNCHANGED <<db, seen, failed>>
  /\ UNCHANGED <<feed, nextId, delivered, conc>>

\* -------------------------------------------------- DELETE /api/webhook
\* lines 108-132: rows_read is 0 when no row has the webhook
DeleteWebhook(p, w) ==
  /\ Free(p)
  /\ \/ /\ inv' = [inv EXCEPT ![p] =
               IF w = NoWebhook
               THEN [Idle EXCEPT !.kind = "delete", !.pc = "done", !.status = 400]
               ELSE IF w \in DOMAIN db
               THEN [Idle EXCEPT !.kind = "delete", !.pc = "done", !.webhook = w,
                                 !.registered = TRUE, !.wrote = TRUE, !.status = 200]
               ELSE [Idle EXCEPT !.kind = "delete", !.pc = "done", !.webhook = w,
                                 !.status = 404]]
        /\ db' = IF w = NoWebhook THEN db ELSE Deleted(w)
        /\ seen' = IF w \in DOMAIN db THEN Unseen(w) ELSE seen
        /\ failed' = IF w \in DOMAIN db THEN Unfailed(w) ELSE failed
        /\ UNCHANGED faults
     \/ /\ CanFail /\ w # NoWebhook
        /\ inv' = [inv EXCEPT ![p] =
               [Idle EXCEPT !.kind = "delete", !.pc = "done", !.webhook = w,
                            !.registered = (w \in DOMAIN db), !.status = 500,
                            !.fault = "store"]]
        /\ faults' = faults - 1
        /\ UNCHANGED <<db, seen, failed>>
  /\ UNCHANGED <<feed, nextId, delivered, conc>>

\* ------------------------------------------- POST /api/webhook/refresh
\* lines 141-163: the request arrives and the row is read
RefreshWebhook(p, w) ==
  /\ Free(p)
  /\ \/ /\ inv' = [inv EXCEPT ![p] =
               IF w = NoWebhook
               THEN [Idle EXCEPT !.kind = "refresh", !.pc = "done", !.status = 400]
               ELSE IF SelectOne(w) = <<>>
               THEN [Idle EXCEPT !.kind = "refresh", !.pc = "done", !.webhook = w,
                                 !.status = 404]
               ELSE [Idle EXCEPT !.kind = "refresh", !.pc = "fetch", !.webhook = w,
                                 !.registered = TRUE, !.info = SelectOne(w),
                                 !.queryParams = db[w].queryParams]]
        /\ UNCHANGED faults
     \/ /\ CanFail /\ w # NoWebhook
        /\ inv' = [inv EXCEPT ![p] =
               Throw([Idle EXCEPT !.kind = "refresh", !.webhook = w,
                                  !.registered = (w \in DOMAIN db)], "store")]
        /\ faults' = faults - 1
  /\ UNCHANGED <<db, feed, nextId, delivered, seen, conc, failed>>

\* lines 165-171 (and 175 when no update is due)
RefreshFetch(p) ==
  /\ At(p, "refresh", "fetch")
  /\ \/ /\ \E ok \in Resolves(RefreshUrl(inv[p].queryParams)) :
             inv' = [inv EXCEPT ![p] =
               IF ok THEN Fetched(inv[p], GoodBody(inv[p].queryParams))
               ELSE Rejected(inv[p])]
        /\ UNCHANGED faults
     \/ /\ CanFail
        /\ \E b \in BadBodies(inv[p].queryParams) :
             inv' = [inv EXCEPT ![p] =
                       Fetched([inv[p] EXCEPT !.fault = "malformed"], b)]
        /\ faults' = faults - 1
     \/ /\ CanFail
        /\ inv' = [inv EXCEPT ![p] = Throw(inv[p], "fetch")]
        /\ faults' = faults - 1
  /\ UNCHANGED <<db, feed, nextId, delivered, seen, conc, failed>>

\* lines 172-175
RefreshUpdate(p) ==
  /\ At(p, "refresh", "update")
  /\ \/ /\ db' = Updated(inv[p].webhook, inv[p].latestId)
        /\ inv' = [inv EXCEPT ![p] = Wrote(inv[p])]
        /\ UNCHANGED faults
     \/ /\ CanFail
        /\ inv' = [inv EXCEPT ![p] = Throw(inv[p], "store")]
        /\ faults' = faults - 1
        /\ UNCHANGED db
  /\ UNCHANGED <<feed, nextId, delivered, seen, conc, failed>>

\* lines 177-181: the loop takes the next notice of the delta and calls
\* fetch(webhook): the POST is in flight
RefreshDispatch(p) ==
  /\ At(p, "refresh", "send") /\ inv[p].queue # <<>>
  /\ inv' = [inv EXCEPT ![p] = [inv[p] EXCEPT !.pc = "post"]]
  /\ UNCHANGED <<db, feed, nextId, delivered, seen, faults, conc, failed>>

\* lines 182-185: the awaited POST settles.  It resolves with the webhook's
\* response, which the code does not look at: the webhook took the message,
\* or answered an error status (rate limit, unknown webhook) and did not;
\* or it rejects (network error) and the handler throws.
RefreshSend(p) ==
  /\ At(p, "refresh", "post")
  /\ \/ /\ delivered' = Delivered(inv[p].webhook, Head(inv[p].queue))
        /\ inv' = [inv EXCEPT ![p] = Sent(inv[p])]
        /\ UNCHANGED <<faults, failed>>
     \/ /\ CanFail
        /\ inv' = [inv EXCEPT ![p] = Sent([inv[p] EXCEPT !.fault = "refused"])]
        /\ failed' = Failed(inv[p])
        /\ faults' = faults - 1
        /\ UNCHANGED delivered
     \/ /\ CanFail
        /\ inv' = [inv EXCEPT ![p] = Throw(inv[p], "dispatch")]
        /\ failed' = Failed(inv[p])
        /\ faults' = faults - 1
        /\ UNCHANGED delivered
  /\ UNCHANGED <<db, feed, nextId, seen, conc>>

\* lines 188-190
RefreshDone(p) ==
  /\ At(p, "refresh", "send") /\ inv[p].queue = <<>>
  /\ inv' = [inv EXCEPT ![p] = Respond(inv[p], 200)]
  /\ seen' = Seen(inv[p])
  /\ UNCHANGED <<db, feed, nextId, delivered, faults, conc, failed>>

\* ------------------------------------------------------------ scheduled
\* (mutant) the loop ends after its first bot
TurnOnce(r) ==
  IF r.bots = <<>> \/ r.synced # {}
  THEN [r EXCEPT !.pc = "done"]
  ELSE [r EXCEPT !.pc = "fetch", !.webhook = Head(r.bots).webhook,
                 !.queryParams = Head(r.bots).row.queryParams,
                 !.info = <<Head(r.bots).row>>,
                 !.body = NoBody, !.latestId = 0, !.queue = <<>>, !.sent = <<>>,
                 !.wrote = FALSE, !.fault = "none"]

\* the loop of lines 203-226 turns to the bot at the head of bots
Turn(r) ==
  IF r.bots = <<>>
  THEN [r EXCEPT !.pc = "done"]
  ELSE [r EXCEPT !.pc = "fetch", !.webhook = Head(r.bots).webhook,
                 !.queryParams = Head(r.bots).row.queryParams,
                 !.info = <<Head(r.bots).row>>,
                 !.body = NoBody, !.latestId = 0, !.queue = <<>>, !.sent = <<>>,
                 !.wrote = FALSE, !.fault = "none"]

\* lines 198-203: the cron trigger fires and the rows are read
Scheduled(p) ==
  /\ Free(p)
  /\ \/ /\ \E s \in AllBots :
             inv' = [inv EXCEPT ![p] =
               Turn([Idle EXCEPT !.kind = "scheduled",
                                 !.bots = [i \in DOMAIN s |-> Bot(s[i])],
                                 !.loaded = DOMAIN db])]
        /\ UNCHANGED faults
     \/ /\ CanFail
        /\ inv' = [inv EXCEPT ![p] = Throw([Idle EXCEPT !.kind = "scheduled"], "store")]
        /\ faults' = faults - 1
  /\ UNCHANGED <<db, feed, nextId, delivered, seen, conc, failed>>

\* lines 204-210 (and 214 when no update is due)
ScheduledFetch(p) ==
  /\ At(p, "scheduled", "fetch")
  /\ \/ /\ \E ok \in Resolves(ScheduledUrl(inv[p].queryParams)) :
             inv' = [inv EXCEPT ![p] =
               IF ok THEN Fetched(inv[p], GoodBody(inv[p].queryParams))
               ELSE Rejected(inv[p])]
        /\ UNCHANGED faults
     \/ /\ CanFail
        /\ \E b \in BadBodies(inv[p].queryParams) :
             inv' = [inv EXCEPT ![p] =
                       Fetched([inv[p] EXCEPT !.fault = "malformed"], b)]
        /\ faults' = faults - 1
     \/ /\ CanFail
        /\ inv' = [inv EXCEPT ![p] = Throw(inv[p], "fetch")]
        /\ faults' = faults - 1
  /\ UNCHANGED <<db, feed, nextId, delivered, seen, conc, failed>>

\* lines 211-214
ScheduledUpdate(p) ==
  /\ At(p, "scheduled", "update")
  /\ \/ /\ db' = Updated(inv[p].webhook, inv[p].latestId)
        /\ inv' = [inv EXCEPT ![p] = Wrote(inv[p])]
        /\ UNCHANGED faults
     \/ /\ CanFail
        /\ inv' = [inv EXCEPT ![p] = Throw(inv[p], "store")]
        /\ faults' = faults - 1
        /\ UNCHANGED db
  /\ UNCHANGED <<feed, nextId, delivered, seen, conc, failed>>

\* lines 216-220: the loop takes the next notice of the delta and calls
\* fetch(webhook): the POST is in flight
ScheduledDispatch(p) ==
  /\ At(p, "scheduled", "send") /\ inv[p].queue # <<>>
  /\ inv' = [inv EXCEPT ![p] = [inv[p] EXCEPT !.pc = "post"]]
  /\ UNCHANGED <<db, feed, nextId, delivered, seen, faults, conc, failed>>

\* lines 221-224: the awaited POST settles.  It resolves with the webhook's
\* response, which the code does not look at: the webhook took the message,
\* or answered an error status (rate limit, unknown webhook) and did not;
\* or it rejects (network error) and the handler throws.
ScheduledSend(p) ==
  /\ At(p, "scheduled", "post")
  /\ \/ /\ delivered' = Delivered(inv[p].webhook, Head(inv[p].queue))
        /\ inv' = [inv EXCEPT ![p] = Sent(inv[p])]
        /\ UNCHANGED <<faults, failed>>
     \/ /\ CanFail
        /\ inv' = [inv EXCEPT ![p] = Sent([inv[p] EXCEPT !.fault = "refused"])]
        /\ failed' = Failed(inv[p])
        /\ faults' = faults - 1
        /\ UNCHANGED delivered
     \/ /\ CanFail
        /\ inv' = [inv EXCEPT ![p] = Throw(inv[p], "dispatch")]
        /\ failed' = Failed(inv[p])
        /\ faults' = faults - 1
        /\ UNCHANGED delivered
  /\ UNCHANGED <<db, feed, nextId, seen, conc>>

\* line 226: the bot's delta is exhausted, the outer loop goes on
ScheduledNext(p) ==
  /\ At(p, "scheduled", "send") /\ inv[p].queue = <<>>
  /\ inv' = [inv EXCEPT ![p] =
       Turn([inv[p] EXCEPT !.bots = Tail(inv[p].bots),
                           !.synced = inv[p].synced \cup {inv[p].webhook}])]
  /\ seen' = Seen(inv[p])
  /\ UNCHANGED <<db, feed, nextId, delivered, faults, conc, failed>>

\* the response has gone out (or the tick has ended): the invocation is over
Return(p) ==
  /\ inv[p].pc = "done"
  /\ inv' = [inv EXCEPT ![p] = Idle]
  /\ UNCHANGED <<db, feed, nextId, delivered, seen, faults, conc, failed>>

\* ------------------------------------------------------ specifications
Params == Webhooks \cup {NoWebhook}

Next ==
  \/ Publish
  \/ Retract
  \/ \E p \in Procs, w \in Params : GetWebhook(p, w)
  \/ \E p \in Procs, w \in Params, f \in Payloads : PostWebhook(p, w, f)
  \/ \E p \in Procs : PostSelect(p)
  \/ \E p \in Procs : PostInsert(p)
  \/ \E p \in Procs, w \in Params : DeleteWebhook(p, w)
  \/ \E p \in Procs, w \in Params : RefreshWebhook(p, w)
  \/ \E p \in Procs : RefreshFetch(p)
  \/ \E p \in Procs : RefreshUpdate(p)
  \/ \E p \in Procs : RefreshDispatch(p)
  \/ \E p \in Procs : RefreshSend(p)
  \/ \E p \in Procs : RefreshDone(p)
  \/ \E p \in Procs : Scheduled(p)
  \/ \E p \in Procs : ScheduledFetch(p)
  \/ \E p \in Procs : ScheduledUpdate(p)
  \/ \E p \in Procs : ScheduledDispatch(p)
  \/ \E p \in Procs : ScheduledSend(p)
  \/ \E p \in Procs : ScheduledNext(p)
  \/ \E p \in Procs : Return(p)

\* All operations, the host running one invocation at a time (conc = 1: a
\* request or tick arrives when the one before it is over); up to MaxFaults
\* calls fail.
Spec == Init /\ [][Next]_vars

\* -- Refreshes and sweeps, interleaved --------------------------------
\* Both webhooks were registered while the board was empty (POST
\* /api/webhook stores latestId 0 then); the host runs up to MaxConc
\* invocations at a time; no call fails.
InitSync ==
  /\ db = [x \in Webhooks |->
             Row(0, IF x = "w1" THEN "" ELSE "category=a", 0)]
  /\ feed = {}
  /\ nextId = 1
  /\ inv = [p \in Procs |-> Idle]
  /\ delivered = [w \in Webhooks |-> [n \in 1..MaxNotice |-> 0]]
  /\ seen = NotSeen
  /\ faults = 0
  /\ conc = MaxConc
  /\ failed = NotFailed

NextSync ==
  \/ Publish
  \/ \E p \in Procs, w \in Webhooks : RefreshWebhook(p, w)
  \/ \E p \in Procs : RefreshFetch(p)
  \/ \E p \in Procs : RefreshUpdate(p)
  \/ \E p \in Procs : RefreshDispatch(p)
  \/ \E p \in Procs : RefreshSend(p)
  \/ \E p \in Procs : RefreshDone(p)
  \/ \E p \in Procs : Scheduled(p)
  \/ \E p \in Procs : ScheduledFetch(p)
  \/ \E p \in Procs : ScheduledUpdate(p)
  \/ \E p \in Procs : ScheduledDispatch(p)
  \/ \E p \in Procs : ScheduledSend(p)
  \/ \E p \in Procs : ScheduledNext(p)
  \/ \E p \in Procs : Return(p)

SpecSync == InitSync /\ [][NextSync]_vars

\* -- Creation requests, interleaved -------------------------------------
\* The store starts empty; the host runs up to MaxConc invocations at a
\* time; no call fails.
InitCreate ==
  /\ db = [x \in {} |-> Row(0, "", 0)]
  /\ feed = {}
  /\ nextId = 1
  /\ inv = [p \in Procs |-> Idle]
  /\ delivered = [w \in Webhooks |-> [n \in 1..MaxNotice |-> 0]]
  /\ seen = NotSeen
  /\ faults = 0
  /\ conc = MaxConc
  /\ failed = NotFailed

NextCreate ==
  \/ Publish
  \/ \E p \in Procs, w \in Webhooks, f \in Payloads : PostWebhook(p, w, f)
  \/ \E p \in Procs : PostSelect(p)
  \/ \E p \in Procs : PostInsert(p)
  \/ \E p \in Procs : Return(p)

SpecCreate == InitCreate /\ [][NextCreate]_vars

\* -- Syncs, deletions and creations, interleaved --------------------------
\* Both webhooks are registered (as in InitSync); refreshes and sweeps run
\* while w1 is deleted and registered again, as up to MaxConc invocations at
\* a time; no call fails.
NextLife ==
  \/ Publish
  \/ \E p \in Procs : DeleteWebhook(p, "w1")
  \/ \E p \in Procs : PostWebhook(p, "w1", "")
  \/ \E p \in Procs : PostSelect(p)
  \/ \E p \in Procs : PostInsert(p)
  \/ \E p \in Procs, w \in Webhooks : RefreshWebhook(p, w)
  \/ \E p \in Procs : RefreshFetch(p)
  \/ \E p \in Procs : RefreshUpdate(p)
  \/ \E p \in Procs : RefreshDispatch(p)
  \/ \E p \in Procs : RefreshSend(p)
  \/ \E p \in Procs : RefreshDone(p)
  \/ \E p \in Procs : Scheduled(p)
  \/ \E p \in Procs : ScheduledFetch(p)
  \/ \E p \in Procs : ScheduledUpdate(p)
  \/ \E p \in Procs : ScheduledDispatch(p)
  \/ \E p \in Procs : ScheduledSend(p)
  \/ \E p \in Procs : ScheduledNext(p)
  \/ \E p \in Procs : Return(p)

SpecLife == InitSync /\ [][NextLife]_vars

\* -- Sweeps and deletions, interleaved, no call failing or hanging --------
\* Both webhooks are registered (as in InitSync); cron sweeps run while
\* notices are published and subscriptions deleted, as up to MaxConc
\* invocations at a time.
NextSweep ==
  \/ Publish
  \/ \E p \in Procs, w \in Webhooks : DeleteWebhook(p, w)
  \/ \E p \in Procs : Scheduled(p)
  \/ \E p \in Procs : ScheduledFetch(p)
  \/ \E p \in Procs : ScheduledUpdate(p)
  \/ \E p \in Procs : ScheduledDispatch(p)
  \/ \E p \in Procs : ScheduledSend(p)
  \/ \E p \in Procs : ScheduledNext(p)
  \/ \E p \in Procs : Return(p)

\* a step of the sweep p: the call it awaits settles and the handler runs on
SweepStep(p) ==
  \/ ScheduledFetch(p)
  \/ ScheduledUpdate(p)
  \/ ScheduledDispatch(p)
  \/ ScheduledSend(p)
  \/ ScheduledNext(p)

\* Every awaited call settles and the host runs the handler on: a sweep that
\* can take a step again and again takes it; an invocation that has ended is
\* over.
SpecSweep ==
  /\ InitSync
  /\ [][NextSweep]_vars
  /\ \A p \in Procs : SF_vars(SweepStep(p)) /\ WF_vars(Return(p))

\* ================================================================ claims
Ids(s) == {s[i] : i \in DOMAIN s}

Ascending(s) == \A i, j \in DOMAIN s : i < j => s[i] < s[j]

\* the newest id of a notice array, 0 when it is empty
Newest(items) == IF items = <<>> THEN 0 ELSE Head(items)

Max(a, b) == IF a >= b THEN a ELSE b

\* invocation p is a sync (a refresh, or a sweep at one of its bots) that
\* has read its row
IsSync(p) == inv[p].kind \in {"refresh", "scheduled"} /\ inv[p].info # <<>>

\* the sync of p has fetched a notice array without a null element
WellFormed(p) ==
  inv[p].body.shape = "array" /\ Null \notin Ids(inv[p].body.items)

\* the sync of p has dispatched its whole delta
Completed(p) == IsSync(p) /\ inv[p].pc = "send" /\ inv[p].queue = <<>>

\* C1 (as claimed): over any interleaving of refreshes and sweeps, a notice
\* is dispatched to a webhook at most once.
C1_AtMostOnce ==
  \A w \in Webhooks, n \in 1..MaxNotice : delivered[w][n] <= 1

\* C2 (as claimed): no notice is skipped: when a sync has ended, every
\* notice the source returned to it with an id above the watermark it read
\* and not above the stored watermark has been dispatched.
C2_NoneSkipped ==
  \A p \in Procs :
    (IsSync(p) /\ WellFormed(p) /\ inv[p].pc = "done"
       /\ inv[p].webhook \in DOMAIN db)
    => \A n \in Ids(inv[p].body.items) :
         (n > Stored(inv[p]) /\ n <= db[inv[p].webhook].latestId)
         => delivered[inv[p].webhook][n] >= 1

\* what a single sync has dispatched: the fetched notices above the
\* watermark it read, in ascending order
DispatchedDelta(p) ==
  /\ Ascending(inv[p].sent)
  /\ Ids(inv[p].sent) = {n \in Ids(inv[p].body.items) : n > Stored(inv[p])}

\* C3 (amended): a single sync dispatches exactly the fetched notices with
\* id > W in ascending id order, and when it finishes the stored watermark
\* is the larger of W and the feed's newest id.
C3_SingleSync ==
  \A p \in Procs :
    Completed(p)
    => /\ DispatchedDelta(p)
       /\ inv[p].webhook \in DOMAIN db
       /\ db[inv[p].webhook].latestId =
            Max(Stored(inv[p]), Newest(inv[p].body.items))

\* C3 (as claimed): ... and when the sync finishes the stored watermark
\* equals the feed's newest id.
C3_WatermarkIsNewest ==
  \A p \in Procs :
    Completed(p)
    => /\ DispatchedDelta(p)
       /\ inv[p].webhook \in DOMAIN db
       /\ db[inv[p].webhook].latestId = Newest(inv[p].body.items)

\* C3 witness: a sync has dispatched two notices and finished.
C3_Witness ==
  \E p \in Procs : Completed(p) /\ Len(inv[p].sent) >= 2

\* C4 (as claimed): over any interleaving of refreshes and sweeps the stored
\* watermark of a subscription never decreases.
C4_Monotone ==
  [][\A w \in DOMAIN db \cap DOMAIN db' : db'[w].latestId >= db[w].latestId]_vars

\* C5 (as claimed): of two creation requests for one webhook that both
\* arrive while it is unregistered, one is answered 201 and the other 409.
C5_OneCreatedOneConflict ==
  \A p, q \in Procs :
    (p # q /\ inv[p].kind = "create" /\ inv[q].kind = "create"
       /\ inv[p].pc = "done" /\ inv[q].pc = "done"
       /\ inv[p].webhook = inv[q].webhook
       /\ ~inv[p].registered /\ ~inv[q].registered)
    => {inv[p].status, inv[q].status} = {201, 409}

\* C6 (as claimed): a sweep that has ended has synced every subscription it
\* loaded, but for the one it failed at.
C6_SweepGoesOn ==
  \A p \in Procs :
    (inv[p].kind = "scheduled" /\ inv[p].pc = "done")
    => \A w \in inv[p].loaded : w \in inv[p].synced \/ w = inv[p].webhook

\* C7: a creation answered 201 has stored the newest id of the fetched feed
\* (0 when it is empty) as the watermark, and a sync dispatches only notices
\* above the watermark its subscription was created with.
C7_NoBacklog ==
  /\ \A p \in Procs :
       (inv[p].kind = "create" /\ inv[p].status = 201 /\ WellFormed(p))
       => /\ inv[p].webhook \in DOMAIN db
          /\ db[inv[p].webhook].latestId = Newest(inv[p].body.items)
          /\ db[inv[p].webhook].initial = Newest(inv[p].body.items)
  /\ \A p \in Procs :
       IsSync(p) => \A n \in Ids(inv[p].sent) : n > inv[p].info[1].initial

\* C7 witness: a subscription created with watermark 1 is sent a notice.
C7_Witness ==
  \E p \in Procs :
    IsSync(p) /\ inv[p].info[1].initial >= 1 /\ inv[p].sent # <<>>

\* C8: a sync that completes on the body the last completed sync of the
\* subscription fetched has dispatched nothing and left the watermark as it
\* read it.
C8_Idempotent ==
  \A p \in Procs :
    (Completed(p) /\ seen = Seen(inv[p]))
    => /\ inv[p].sent = <<>>
       /\ ~inv[p].wrote
       /\ inv[p].webhook \in DOMAIN db
       /\ db[inv[p].webhook].latestId = Stored(inv[p])

\* C8 witness: a second sync completes on the same non-empty feed.
C8_Witness ==
  \E p \in Procs :
    Completed(p) /\ seen = Seen(inv[p]) /\ inv[p].body.items # <<>>

\* C9 (as claimed): a sync whose notice fetch failed or answered malformed
\* has written nothing and dispatched nothing.
C9_FetchFailureAtomic ==
  \A p \in Procs :
    (IsSync(p) /\ inv[p].fault \in {"fetch", "malformed"})
    => /\ ~inv[p].wrote
       /\ inv[p].sent = <<>>

\* C10: a sync that fetched an empty feed, or one whose newest id is not
\* above the watermark it read, writes nothing, dispatches nothing and ends
\* without error (a refresh with 200).
C10_NothingNew ==
  \A p \in Procs :
    (IsSync(p) /\ WellFormed(p)
       /\ Newest(inv[p].body.items) <= Stored(inv[p]))
    => /\ ~inv[p].wrote
       /\ inv[p].sent = <<>> /\ inv[p].queue = <<>>
       /\ inv[p].pc \in {"send", "done"}
       /\ ~inv[p].threw
       /\ (inv[p].pc = "done" /\ inv[p].kind = "refresh") => inv[p].status = 200

\* C10 witness: a refresh that found a notice at its watermark, and nothing
\* newer, is answered.
C10_Witness ==
  \E p \in Procs :
    /\ IsSync(p) /\ WellFormed(p) /\ inv[p].kind = "refresh"
    /\ inv[p].body.items # <<>>
    /\ Newest(inv[p].body.items) <= Stored(inv[p])
    /\ inv[p].pc = "done"

\* C11 (as claimed): at no time are two dispatch calls to the same webhook
\* in flight, also when refreshes and sweeps run as concurrent invocations.
C11_OneInFlight ==
  \A p, q \in Procs :
    (p # q /\ inv[p].pc = "post" /\ inv[q].pc = "post")
    => inv[p].webhook # inv[q].webhook

\* the step answers invocation p with 400, 404 or 409
Refuses(p) ==
  /\ inv[p].pc # "done" /\ inv'[p].pc = "done"
  /\ inv'[p].status \in {400, 404, 409}

\* the step is the arrival of a GET, DELETE or refresh for a webhook without
\* a row, and its store call does not fail
AsksUnregistered(p) ==
  /\ inv[p].kind = "idle"
  /\ inv'[p].kind \in {"get", "delete", "refresh"}
  /\ inv'[p].webhook \in Webhooks \ DOMAIN db
  /\ inv'[p].fault = "none"

\* C12: a request answered 400, 404 or 409 has written nothing to the store
\* and dispatched nothing, the step that answers it leaves the store and the
\* deliveries as they are, and a GET, DELETE or refresh for an unregistered
\* webhook is answered 404.
C12_ErrorsChangeNothing ==
  /\ [](\A p \in Procs :
          inv[p].status \in {400, 404, 409}
          => inv[p].pc = "done" /\ ~inv[p].wrote /\ inv[p].sent = <<>>)
  /\ [][\A p \in Procs :
          /\ Refuses(p) => db' = db /\ delivered' = delivered
          /\ AsksUnregistered(p)
             => inv'[p].pc = "done" /\ inv'[p].status = 404]_vars

\* C12 witness: a creation request that fetched a newer feed than the row
\* of its webhook holds is answered 409.
C12_Witness ==
  \E p \in Procs :
    /\ inv[p].kind = "create" /\ inv[p].status = 409
    /\ inv[p].webhook \in DOMAIN db
    /\ inv[p].latestId > db[inv[p].webhook].latestId

\* a dispatch of the sync of p has failed: the POST was rejected, or the
\* webhook answered it with an error status
DispatchFailed(p) == IsSync(p) /\ inv[p].fault \in {"dispatch", "refused"}

\* C13: in a sync with latestId above the stored watermark the watermark is
\* written before the first dispatch; after a dispatch of the sync has failed
\* the stored watermark is latestId; and no other sync of the subscription
\* dispatches the notice whose dispatch failed.
C13_WatermarkKept ==
  /\ \A p \in Procs :
       (IsSync(p) /\ (inv[p].pc = "post" \/ inv[p].sent # <<>>))
       => inv[p].wrote
  /\ \A p \in Procs :
       DispatchFailed(p)
       => /\ inv[p].wrote
          /\ inv[p].webhook \in DOMAIN db
          /\ db[inv[p].webhook].latestId = inv[p].latestId
  /\ \A p \in Procs :
       (IsSync(p) /\ ~DispatchFailed(p) /\ inv[p].webhook = failed.webhook)
       => failed.notice \notin Ids(inv[p].sent) \cup Ids(inv[p].queue)

\* C13 witness: a dispatch of notice n to a webhook failed, and a later sync
\* of the webhook that fetched a feed holding n has completed.
C13_Witness ==
  \E p \in Procs :
    /\ Completed(p) /\ ~DispatchFailed(p)
    /\ inv[p].webhook = failed.webhook
    /\ failed.notice \in Ids(inv[p].body.items)

\* C14 (as claimed): a refresh is answered 200 only when every notice of its
\* delta was dispatched successfully, never when one of its dispatches
\* failed.
C14_FailureSurfaced ==
  \A p \in Procs :
    (inv[p].kind = "refresh" /\ inv[p].pc = "done" /\ inv[p].status = 200)
    => ~DispatchFailed(p)

\* the feed a sync that has ended was given: the body it fetched, or, when
\* it ended before it had one, the board's answer to its query
Given(p) ==
  IF inv[p].body = NoBody THEN GoodBody(inv[p].queryParams) ELSE inv[p].body

\* The sync of p, in which no call failed, has ended with the dispatches and
\* the watermark that the record it read and the feed it was given determine.
SameOutcome(p) ==
  (IsSync(p) /\ inv[p].fault = "none" /\ (inv[p].pc = "done" \/ Completed(p)))
  => /\ ~inv[p].threw
     /\ inv[p].sent = NewNotices(Given(p), Stored(inv[p]))
     /\ inv[p].webhook \in DOMAIN db
     /\ db[inv[p].webhook].latestId =
          Max(Stored(inv[p]), Newest(Given(p).items))

StepOf(p, kinds) ==
  inv'[p] # inv[p] /\ (inv[p].kind \in kinds \/ inv'[p].kind \in kinds)

\* C16: a step of a sync leaves the set of registered webhooks, every
\* queryParams and the watermark of every other webhook as they are (so it
\* does not bring back a row deleted in the meantime); a row appears only in
\* a step of a creation request and disappears only in a step of a deletion
\* request.
C16_SyncFrame ==
  [][/\ \A p \in Procs :
          StepOf(p, {"refresh", "scheduled"})
          => /\ DOMAIN db' = DOMAIN db
             /\ \A w \in DOMAIN db :
                  /\ db'[w].queryParams = db[w].queryParams
                  /\ w # inv[p].webhook => db'[w].latestId = db[w].latestId
     /\ DOMAIN db' \ DOMAIN db # {} => \E p \in Procs : StepOf(p, {"create"})
     /\ DOMAIN db \ DOMAIN db' # {} => \E p \in Procs : StepOf(p, {"delete"})
    ]_vars

\* C16 witness: a sync has run its update, and the row of its webhook is
\* not in the store, while the other webhook has been synced to watermark 1.
C16_Witness ==
  \E p \in Procs :
    /\ IsSync(p) /\ inv[p].wrote
    /\ inv[p].webhook \notin DOMAIN db
    /\ \E w \in DOMAIN db : db[w].latestId >= 1

\* C17: when no call fails, a sweep that has ended has synced every
\* subscription it loaded, and every sweep ends.
C17_SweepCompletes ==
  /\ [](\A p \in Procs :
          (inv[p].kind = "scheduled" /\ inv[p].pc = "done")
          => inv[p].loaded \subseteq inv[p].synced)
  /\ \A p \in Procs :
       (inv[p].kind = "scheduled") ~> (inv[p].kind = "scheduled" /\ inv[p].pc = "done")

\* C17 witness: a sweep that loaded both subscriptions has ended and has
\* dispatched a notice to each.
C17_Witness ==
  \E p \in Procs :
    /\ inv[p].kind = "scheduled" /\ inv[p].pc = "done"
    /\ inv[p].loaded = Webhooks
    /\ \A w \in Webhooks : delivered[w][1] >= 1

\* C18 (as claimed): no dispatch to a webhook starts while its row is
\* deleted, also in a refresh or a sweep that read the row before the
\* deletion.
C18_NoDispatchAfterDelete ==
  [][\A p \in Procs :
       (IsSync(p) /\ inv[p].pc = "send" /\ inv'[p].pc = "post")
       => inv[p].webhook \in DOMAIN db]_vars

====
